---- MODULE Spec2Model ----
(***************************************************************************)
(* A model of src/ucumvert/parser.py: the UCUM grammar handed to Lark, the *)
(* derivations Lark's Earley parser finds with its dynamic lexer, and the  *)
(* UnitsTransformer callbacks that fold a parse tree into term records.    *)
(*                                                                         *)
(* A Python str is a sequence of one-character strings, so that indexing   *)
(* (args[0]), slicing (args[0:2]), len() and int() are what Python does.   *)
(***************************************************************************)
EXTENDS Integers, Sequences, FiniteSets, TLC

VARIABLES vocabulary, data, result, calls, builds, stdout

vars == <<vocabulary, data, result, calls, builds, stdout>>

(***************************************************************************)
(* Bounds of the model.                                                    *)
(***************************************************************************)
MaxChain == 3
MaxPieces == 3
MaxCalls == 3

(***************************************************************************)
(* Python values.  A dict of the transformer has at most seven keys; a key *)
(* that is absent holds the empty set, a key that is present holds the     *)
(* singleton of its value.                                                 *)
(***************************************************************************)
EmptyDict ==
    [type |-> {}, unit |-> {}, prefix |-> {}, exponent |-> {}, factor |-> {},
     annotation |-> {}, operator |-> {}]

PyDict(d) == [tag |-> "dict", d |-> d, l |-> <<>>]

PyList(l) == [tag |-> "list", d |-> EmptyDict, l |-> l]

PyNone == [tag |-> "None", d |-> EmptyDict, l |-> <<>>]

\* An exception raised by a callback (a TypeError, wrapped by Lark).
PyRaise == [tag |-> "raise", d |-> EmptyDict, l |-> <<>>]

Override(x, y) == IF y # {} THEN y ELSE x

\* {**a, **b}: both operands must be mappings, b's keys win.
Merge(a, b) ==
    IF a.tag = "dict" /\ b.tag = "dict"
    THEN PyDict([type       |-> Override(a.d.type, b.d.type),
                 unit       |-> Override(a.d.unit, b.d.unit),
                 prefix     |-> Override(a.d.prefix, b.d.prefix),
                 exponent   |-> Override(a.d.exponent, b.d.exponent),
                 factor     |-> Override(a.d.factor, b.d.factor),
                 annotation |-> Override(a.d.annotation, b.d.annotation),
                 operator   |-> Override(a.d.operator, b.d.operator)])
    ELSE PyRaise

(***************************************************************************)
(* Characters and int().                                                   *)
(***************************************************************************)
Digits == <<"0", "1", "2", "3", "4", "5", "6", "7", "8", "9">>

IsDigit(c) == \E k \in 1..Len(Digits) : Digits[k] = c

IsNonZeroDigit(c) == IsDigit(c) /\ c # "0"

DigitValue(c) == (CHOOSE k \in 1..Len(Digits) : Digits[k] = c) - 1

RECURSIVE DigitsValue(_)
DigitsValue(s) ==
    IF s = <<>> THEN 0
    ELSE 10 * DigitsValue(SubSeq(s, 1, Len(s) - 1)) + DigitValue(s[Len(s)])

\* int(s) of an optionally signed digit string.
int(s) ==
    IF s[1] = "-" THEN 0 - DigitsValue(Tail(s))
    ELSE IF s[1] = "+" THEN DigitsValue(Tail(s))
    ELSE DigitsValue(s)

\* STRING: /[\x21-\x7E]*/ excludes the space (and every control character).
IsPrintable(c) == c # " "

(***************************************************************************)
(* The grammar: ucum_parser() fills the three vocabulary terminals of      *)
(* UCUM_GRAMMAR from the vocabulary accessors.                             *)
(***************************************************************************)
ucum_parser(v) ==
    [PREFIX     |-> v.prefixes,
     METRIC     |-> v.base_units \cup v.metric_units,
     NON_METRIC |-> v.non_metric_units]

MatchesAt(w, s, i) ==
    /\ i + Len(w) - 1 <= Len(s)
    /\ SubSeq(s, i, i + Len(w) - 1) = w

\* A terminal that is an alternation of literals: Lark compiles it to one
\* regular expression with the longest literal first, and the dynamic lexer
\* takes the one match of that expression at position i.
match_literals(symbols, s, i) ==
    LET hits == {w \in symbols : MatchesAt(w, s, i)}
    IN  {i + Len(w) : w \in {x \in hits : \A y \in hits : Len(y) <= Len(x)}}

\* The end of the digit run that starts at i.
RECURSIVE DigitRunEnd(_, _)
DigitRunEnd(s, i) ==
    IF i <= Len(s) /\ IsDigit(s[i]) THEN DigitRunEnd(s, i + 1) ELSE i

\* A digit run that may begin with "0".
match_DIGITS(s, i) ==
    IF i <= Len(s) /\ IsDigit(s[i]) THEN {DigitRunEnd(s, i + 1)} ELSE {}

\* NON_ZERO_DIGITS : /[1-9][0-9]*/ (greedy).
match_NON_ZERO_DIGITS(s, i) ==
    IF i <= Len(s) /\ IsNonZeroDigit(s[i]) THEN {DigitRunEnd(s, i + 1)} ELSE {}

\* FACTOR: NON_ZERO_DIGITS
match_FACTOR(s, i) == match_NON_ZERO_DIGITS(s, i)

\* EXPONENT : ["+"|"-"] NON_ZERO_DIGITS
match_EXPONENT(s, i) ==
    IF i <= Len(s) /\ s[i] \in {"+", "-"}
    THEN match_NON_ZERO_DIGITS(s, i + 1)
    ELSE match_NON_ZERO_DIGITS(s, i)

\* ANNOTATION: "{" STRING "}" with STRING: /[\x21-\x7E]*/.  The star is
\* greedy and the class holds both braces, so the match ends at the last "}"
\* that only printable characters separate from the opening "{".
match_ANNOTATION(s, i) ==
    IF i <= Len(s) /\ s[i] = "{"
    THEN LET closes == {k \in (i + 1)..Len(s) :
                           /\ s[k] = "}"
                           /\ \A j \in (i + 1)..(k - 1) : IsPrintable(s[j])}
         IN  {k + 1 : k \in {x \in closes : \A y \in closes : y <= x}}
    ELSE {}

\* OPERATOR: "." | DIVIDE
match_OPERATOR(s, i) ==
    IF i <= Len(s) /\ s[i] \in {".", "/"} THEN {i + 1} ELSE {}

\* DIVIDE: "/"
match_DIVIDE(s, i) == IF i <= Len(s) /\ s[i] = "/" THEN {i + 1} ELSE {}

(***************************************************************************)
(* Parse trees.  A token keeps its text; a rule node keeps its children in *)
(* order.  The anonymous tokens "(" and ")" are filtered out of the tree.  *)
(***************************************************************************)
Token(name, text) == [kind |-> name, text |-> text, children |-> <<>>]

Tree(name, children) == [kind |-> name, text |-> <<>>, children |-> children]

IsToken(node) ==
    node.kind \in {"PREFIX", "METRIC", "NON_METRIC", "FACTOR", "EXPONENT",
                   "ANNOTATION", "OPERATOR", "DIVIDE"}

At(end, node) == [end |-> end, node |-> node]

TokensAt(name, ends, s, i) ==
    {At(j, Token(name, SubSeq(s, i, j - 1))) : j \in ends}

\* A simple_unit whose PREFIX may stand before either kind of atom.
simple_unit_any_prefix(g, s, i) ==
    LET one(toks) == {At(t.end, Tree("simple_unit", <<t.node>>)) : t \in toks}
        atoms(j)  == TokensAt("METRIC", match_literals(g.METRIC, s, j), s, j)
                     \cup TokensAt("NON_METRIC",
                                   match_literals(g.NON_METRIC, s, j), s, j)
    IN  one(atoms(i))
        \cup UNION {
               {At(m.end, Tree("simple_unit", <<p.node, m.node>>)) :
                   m \in atoms(p.end)} :
               p \in TokensAt("PREFIX", match_literals(g.PREFIX, s, i), s, i)}
        \cup one(TokensAt("FACTOR", match_FACTOR(s, i), s, i))

\* simple_unit: METRIC | PREFIX? METRIC | NON_METRIC | FACTOR
rule_simple_unit(g, s, i) ==
    LET one(toks) == {At(t.end, Tree("simple_unit", <<t.node>>)) : t \in toks}
    IN  one(TokensAt("METRIC", match_literals(g.METRIC, s, i), s, i))
        \cup UNION {
               {At(m.end, Tree("simple_unit", <<p.node, m.node>>)) :
                   m \in TokensAt("METRIC", match_literals(g.METRIC, s, p.end),
                                  s, p.end)} :
               p \in TokensAt("PREFIX", match_literals(g.PREFIX, s, i), s, i)}
        \cup one(TokensAt("NON_METRIC", match_literals(g.NON_METRIC, s, i), s, i))
        \cup one(TokensAt("FACTOR", match_FACTOR(s, i), s, i))

RECURSIVE rule_annotatable(_, _, _), rule_component(_, _, _),
          rule_term(_, _, _), term_more(_, _, _)

\* annotatable: simple_unit EXPONENT | simple_unit | "(" term ")"
rule_annotatable(g, s, i) ==
    LET units == rule_simple_unit(g, s, i)
    IN  UNION {
          {At(e.end, Tree("annotatable", <<u.node, e.node>>)) :
              e \in TokensAt("EXPONENT", match_EXPONENT(s, u.end), s, u.end)} :
          u \in units}
        \cup {At(u.end, Tree("annotatable", <<u.node>>)) : u \in units}
        \cup (IF i <= Len(s) /\ s[i] = "("
              THEN {At(t.end + 1, Tree("annotatable", <<t.node>>)) :
                       t \in {x \in rule_term(g, s, i + 1) :
                                 x.end <= Len(s) /\ s[x.end] = ")"}}
              ELSE {})

\* component: annotatable ANNOTATION | annotatable | ANNOTATION
rule_component(g, s, i) ==
    LET inner == rule_annotatable(g, s, i)
    IN  UNION {
          {At(n.end, Tree("component", <<a.node, n.node>>)) :
              n \in TokensAt("ANNOTATION", match_ANNOTATION(s, a.end), s, a.end)} :
          a \in inner}
        \cup {At(a.end, Tree("component", <<a.node>>)) : a \in inner}
        \cup {At(n.end, Tree("component", <<n.node>>)) :
                 n \in TokensAt("ANNOTATION", match_ANNOTATION(s, i), s, i)}

\* term: term OPERATOR component, applied to a term already derived.
term_more(g, s, left) ==
    {left} \cup UNION {
        UNION {
          term_more(g, s, At(c.end, Tree("term", <<left.node, o.node, c.node>>))) :
          c \in rule_component(g, s, o.end)} :
        o \in TokensAt("OPERATOR", match_OPERATOR(s, left.end), s, left.end)}

\* term: term OPERATOR component | component
rule_term(g, s, i) ==
    UNION {term_more(g, s, At(c.end, Tree("term", <<c.node>>))) :
              c \in rule_component(g, s, i)}

\* start: DIVIDE term | term
rule_start(g, s, i) ==
    UNION {
        {At(t.end, Tree("start", <<d.node, t.node>>)) : t \in rule_term(g, s, d.end)} :
        d \in TokensAt("DIVIDE", match_DIVIDE(s, i), s, i)}
    \cup {At(t.end, Tree("start", <<t.node>>)) : t \in rule_term(g, s, i)}

\* Lark(...).parse(data): the derivations of the whole input from start.
\* No derivation is a syntax error.
parse(g, s) == {t.node : t \in {x \in rule_start(g, s, 1) : x.end = Len(s) + 1}}

(***************************************************************************)
(* UnitsTransformer.  A terminal callback gets the token, which is a str;  *)
(* a rule callback gets the list of its children's results.                *)
(***************************************************************************)
UnitsTransformer_FACTOR(args) ==
    PyDict([EmptyDict EXCEPT !.factor = {int(args)}])

UnitsTransformer_EXPONENT(args) ==
    IF Len(args) = 1 THEN PyDict([EmptyDict EXCEPT !.exponent = {int(<<args[1]>>)}])
    ELSE IF Len(args) = 2 THEN PyDict([EmptyDict EXCEPT !.exponent = {int(args)}])
    ELSE PyNone

UnitsTransformer_ANNOTATION(args) ==
    PyDict([EmptyDict EXCEPT !.annotation = {<<args[1]>>}])

UnitsTransformer_OPERATOR(args) ==
    PyDict([EmptyDict EXCEPT !.operator = {<<args[1]>>}])

UnitsTransformer_DIVIDE(args) ==
    PyDict([EmptyDict EXCEPT !.operator = {<<args[1]>>}])

UnitsTransformer_PREFIX(args) ==
    IF args = <<"d", "a">>
    THEN PyDict([EmptyDict EXCEPT !.prefix = {SubSeq(args, 1, 2)}])
    ELSE PyDict([EmptyDict EXCEPT !.prefix = {<<args[1]>>}])

UnitsTransformer_METRIC(args) ==
    PyDict([EmptyDict EXCEPT !.type = {"metric"}, !.unit = {args}])

UnitsTransformer_NON_METRIC(args) ==
    PyDict([EmptyDict EXCEPT !.type = {"non_metric"}, !.unit = {args}])

UnitsTransformer_start(args) ==
    IF Len(args) = 1 THEN PyList(<<args[1]>>)
    ELSE IF Len(args) = 2
    THEN IF args[2].tag = "dict"
         THEN PyList(<<Merge(args[1], args[2])>>)
         ELSE IF args[2].tag = "list" /\ args[2].l # <<>>
                 /\ Merge(args[1], args[2].l[1]) # PyRaise
         THEN PyList(<<Merge(args[1], args[2].l[1])>> \o Tail(args[2].l))
         ELSE PyRaise
    ELSE PyNone

UnitsTransformer_term(args) ==
    IF Len(args) = 1 THEN args[1]
    ELSE IF Len(args) = 3
    THEN IF Merge(args[2], args[3]) = PyRaise THEN PyRaise
         ELSE IF args[1].tag = "dict"
         THEN PyList(<<args[1], Merge(args[2], args[3])>>)
         ELSE IF args[1].tag = "list"
         THEN PyList(args[1].l \o <<Merge(args[2], args[3])>>)
         ELSE PyRaise
    ELSE PyNone

UnitsTransformer_component(args) ==
    IF Len(args) = 1 THEN args[1]
    ELSE IF Len(args) = 2 THEN Merge(args[1], args[2])
    ELSE PyNone

UnitsTransformer_simple_unit(args) ==
    IF Len(args) = 1 THEN args[1]
    ELSE IF Len(args) = 2 THEN Merge(args[1], args[2])
    ELSE PyNone

UnitsTransformer_annotatable(args) ==
    IF Len(args) = 1 THEN args[1]
    ELSE IF Len(args) = 2 THEN Merge(args[1], args[2])
    ELSE PyNone

TokenCallback(node) ==
    CASE node.kind = "FACTOR"     -> UnitsTransformer_FACTOR(node.text)
      [] node.kind = "EXPONENT"   -> UnitsTransformer_EXPONENT(node.text)
      [] node.kind = "ANNOTATION" -> UnitsTransformer_ANNOTATION(node.text)
      [] node.kind = "OPERATOR"   -> UnitsTransformer_OPERATOR(node.text)
      [] node.kind = "DIVIDE"     -> UnitsTransformer_DIVIDE(node.text)
      [] node.kind = "PREFIX"     -> UnitsTransformer_PREFIX(node.text)
      [] node.kind = "METRIC"     -> UnitsTransformer_METRIC(node.text)
      [] node.kind = "NON_METRIC" -> UnitsTransformer_NON_METRIC(node.text)

RuleCallback(kind, args) ==
    CASE kind = "start"       -> UnitsTransformer_start(args)
      [] kind = "term"        -> UnitsTransformer_term(args)
      [] kind = "component"   -> UnitsTransformer_component(args)
      [] kind = "simple_unit" -> UnitsTransformer_simple_unit(args)
      [] kind = "annotatable" -> UnitsTransformer_annotatable(args)

\* transformer_cls().transform(tree): bottom-up; an exception in a callback
\* ends the whole transform.
RECURSIVE transform(_)
transform(node) ==
    IF IsToken(node) THEN TokenCallback(node)
    ELSE LET args == [k \in 1..Len(node.children) |-> transform(node.children[k])]
         IN  IF \E k \in 1..Len(args) : args[k] = PyRaise
             THEN PyRaise
             ELSE RuleCallback(node.kind, args)

(***************************************************************************)
(* Vocabularies: what get_prefixes(), get_base_units(), get_metric_units() *)
(* and get_non_metric_units() return.  Each is a subset of UCUM's tables   *)
(* in which no symbol is in two sets.                                      *)
(***************************************************************************)
UcumVocabulary ==
    [prefixes         |-> {<<"k">>, <<"c">>, <<"d", "a">>, <<"K", "i">>},
     base_units       |-> {<<"m">>, <<"s">>, <<"g">>, <<"c", "d">>},
     metric_units     |-> {<<"l">>},
     non_metric_units |-> {<<"d">>, <<"h">>}]

PascalVocabulary ==
    [prefixes         |-> {<<"P">>, <<"p">>},
     base_units       |-> {<<"g">>},
     metric_units     |-> {<<"P", "a">>, <<"p", "h">>},
     non_metric_units |-> {<<"a">>, <<"h">>}]

Vocabularies == {UcumVocabulary, PascalVocabulary}

Symbols(v) ==
    v.prefixes \cup v.base_units \cup v.metric_units \cup v.non_metric_units

(***************************************************************************)
(* The outcome of a call: a returned value, a syntax error raised by       *)
(* parse(), or an exception raised inside transform().                     *)
(***************************************************************************)
NoResult == [status |-> "none", value |-> PyNone]

Returned(v) == [status |-> "returned", value |-> v]

SyntaxError == [status |-> "syntax_error", value |-> PyNone]

VisitError == [status |-> "visit_error", value |-> PyNone]

Outcome(tree) ==
    IF transform(tree) = PyRaise THEN VisitError ELSE Returned(transform(tree))

\* The outcomes parse_and_transform can have on input d: one for each
\* derivation (the inputs of this model have at most one).
Outcomes(v, d) ==
    IF parse(ucum_parser(v), d) = {} THEN {SyntaxError}
    ELSE {Outcome(tree) : tree \in parse(ucum_parser(v), d)}

ParsingLine(d) == [line |-> "Parsing ucum unit", data |-> d, value |-> PyNone]

ResultLine(v) == [line |-> "Result:", data |-> <<>>, value |-> v]

\* What the call prints: the input always, the result when there is one.
Printed(d, r) ==
    IF r.status = "returned" THEN <<ParsingLine(d), ResultLine(r.value)>>
    ELSE <<ParsingLine(d)>>

\* A grammar that is built by the first call and kept.
BuildsAfterCachedCall(b) == IF b = 0 THEN 1 ELSE b

\* ucum_parser() is called by every parse_and_transform.
BuildsAfterCall(b) == b + 1

(***************************************************************************)
(* parse_and_transform(transformer_cls, data)                              *)
(***************************************************************************)
parse_and_transform(d) ==
    /\ calls < MaxCalls
    /\ data' = d
    /\ calls' = calls + 1
    /\ builds' = BuildsAfterCall(builds)
    /\ \E r \in Outcomes(vocabulary, d) :
          /\ result' = r
          /\ stdout' = stdout \o Printed(d, r)
    /\ UNCHANGED vocabulary

(***************************************************************************)
(* Inputs.  Chains: components joined by "." or "/", with or without a     *)
(* leading "/".  The components cover every alternative of the grammar     *)
(* and some that it rejects.                                               *)
(***************************************************************************)
Components ==
    {<<"m">>, <<"k", "m">>, <<"K", "i", "m">>, <<"d", "a", "m">>, <<"h">>,
     <<"2">>, <<"s", "2">>, <<"m", "-", "1", "0">>,
     <<"{", "a", "}">>, <<"m", "{", "a", "}">>,
     <<"(", "m", ")">>, <<"(", "m", ".", "s", ")">>,
     <<"(", "2", ".", "h", ")", "{", "a", "}">>,
     <<"m", "0">>, <<"k", "h">>}

RECURSIVE ChainsOf(_)
ChainsOf(n) ==
    IF n = 1 THEN Components
    ELSE {left \o <<o>> \o c :
             left \in ChainsOf(n - 1), o \in {".", "/"}, c \in Components}

ChainInputs(longest) ==
    LET chains == UNION {ChainsOf(n) : n \in 1..longest}
    IN  chains \cup {<<"/">> \o c : c \in chains}

\* Concatenations of at most n pieces.
RECURSIVE Concatenations(_, _)
Concatenations(pieces, n) ==
    IF n = 0 THEN {<<>>}
    ELSE LET shorter == Concatenations(pieces, n - 1)
         IN  shorter \cup {x \o p : x \in shorter, p \in pieces}

\* Lexical inputs: the vocabulary's symbols and the characters of numbers,
\* operators and annotations, in any order.
LexPieces(v) ==
    Symbols(v) \cup {<<"0">>, <<"1">>, <<"+">>, <<".">>, <<"/">>,
                      <<"(">>, <<")">>, <<"{">>, <<"}">>, <<" ">>}

LexInputs(v) == Concatenations(LexPieces(v), MaxPieces)

\* The inputs of the documented examples.
Examples ==
    {<<"m">>, <<"k", "m", "2">>, <<"k", "g", ".", "m", "/", "s", "2">>,
     <<"1", "0", "0", "/", "{", "c", "}">>,
     <<"g", "/", "(", "8", ".", "h", ")", "{", "s", "}">>,
     <<"m", "0">>}

(***************************************************************************)
(* Specifications.                                                         *)
(***************************************************************************)
InitCalls ==
    /\ result = NoResult
    /\ calls = 0
    /\ builds = 0
    /\ stdout = <<>>

\* A caller that parses one chain, once.
Init ==
    /\ vocabulary = UcumVocabulary
    /\ data \in ChainInputs(MaxChain)
    /\ InitCalls

Next == calls = 0 /\ parse_and_transform(data)

Spec == Init /\ [][Next]_vars

\* A caller that parses one lexical input, once, under either vocabulary.
InitLex ==
    /\ vocabulary \in Vocabularies
    /\ data \in LexInputs(vocabulary)
    /\ InitCalls

SpecLex == InitLex /\ [][Next]_vars

\* A process that parses one example after another.
InitExamples ==
    /\ vocabulary = UcumVocabulary
    /\ data = <<>>
    /\ InitCalls

NextExamples == \E d \in Examples : parse_and_transform(d)

SpecExamples == InitExamples /\ [][NextExamples]_vars

(***************************************************************************)
(* What the claims speak of: the derivations of the input of the call, the *)
(* components of a chain, the records of a result.                         *)
(***************************************************************************)
Derivations == parse(ucum_parser(vocabulary), data)

Called == calls > 0

RECURSIVE NodesOf(_)
NodesOf(node) ==
    {node} \cup UNION {NodesOf(node.children[k]) : k \in 1..Len(node.children)}

TokensOf(tree, name) == {n \in NodesOf(tree) : n.kind = name}

LeadingDivide(tree) == Len(tree.children) = 2

TopTerm(tree) == tree.children[Len(tree.children)]

\* The component nodes of a term, left to right, and the operators between.
RECURSIVE ComponentsOf(_)
ComponentsOf(t) ==
    IF Len(t.children) = 1 THEN <<t.children[1]>>
    ELSE ComponentsOf(t.children[1]) \o <<t.children[3]>>

RECURSIVE OperatorsOf(_)
OperatorsOf(t) ==
    IF Len(t.children) = 1 THEN <<>>
    ELSE OperatorsOf(t.children[1]) \o <<t.children[2].text>>

IsGroup(node) == node.kind = "annotatable" /\ node.children[1].kind = "term"

HasGroup(tree) == \E n \in NodesOf(tree) : IsGroup(n)

IsGroupComponent(c) == IsGroup(c.children[1])

\* Every record of a value, however deeply it is nested.
RECURSIVE RecordsOf(_)
RecordsOf(v) ==
    IF v.tag = "dict" THEN {v.d}
    ELSE UNION {RecordsOf(v.l[k]) : k \in 1..Len(v.l)}

RECURSIVE FlatRecords(_)
FlatRecords(v) ==
    IF v.tag = "dict" THEN <<v.d>>
    ELSE IF v.l = <<>> THEN <<>>
    ELSE FlatRecords(v.l[1]) \o FlatRecords(PyList(Tail(v.l)))

\* A flat sequence of n records.
IsFlat(v, n) ==
    /\ v.tag = "list"
    /\ Len(v.l) = n
    /\ \A k \in 1..n : v.l[k].tag = "dict"

OperatorDict(o) == PyDict([EmptyDict EXCEPT !.operator = {o}])

Content(text) == SubSeq(text, 2, Len(text) - 1)

Count(s, c) == Cardinality({k \in 1..Len(s) : s[k] = c})

(***************************************************************************)
(* The claims.                                                             *)
(***************************************************************************)

\* C1: an accepted chain of n components without parentheses and without a
\* leading divide returns a flat sequence of exactly n records, in input
\* order; the first has no operator and the k-th carries the operator of
\* the separator before it.
C1_ChainIsFlat ==
    Called =>
      \A tree \in Derivations :
        (~LeadingDivide(tree) /\ ~HasGroup(tree)) =>
          LET comps == ComponentsOf(TopTerm(tree))
              ops   == OperatorsOf(TopTerm(tree))
          IN  /\ result.status = "returned"
              /\ IsFlat(result.value, Len(comps))
              /\ \A k \in 1..Len(comps) :
                    result.value.l[k] =
                        IF k = 1 THEN transform(comps[1])
                        ELSE Merge(OperatorDict(ops[k - 1]), transform(comps[k]))

\* C2: an accepted input with a parenthesized sub-term transforms, and the
\* group is exactly one record of the enclosing sequence: the sequence has
\* one record per component, and the group's record is not a unit's record
\* (its members are not spliced in, nor taken for the group itself) and
\* carries the group's own operator and annotation.
C2_GroupIsOneRecord ==
    Called =>
      \A tree \in Derivations :
        HasGroup(tree) =>
          LET comps == ComponentsOf(TopTerm(tree))
              ops   == OperatorsOf(TopTerm(tree))
          IN  /\ result.status = "returned"
              /\ IsFlat(result.value, Len(comps))
              /\ \A k \in 1..Len(comps) :
                    IsGroupComponent(comps[k]) =>
                       /\ result.value.l[k].d.type = {}
                       /\ result.value.l[k].d.unit = {}
                       /\ result.value.l[k].d.factor = {}
                       /\ (result.value.l[k].d.annotation # {})
                             = (Len(comps[k].children) = 2)
                       /\ result.value.l[k].d.operator =
                             IF k > 1 THEN {ops[k - 1]}
                             ELSE IF LeadingDivide(tree) THEN {<<"/">>}
                             ELSE {}

\* C8: an accepted parenthesis-free chain with a leading divide returns a
\* flat sequence of n records; the first has operator divide and otherwise
\* the fields of the first component, and each later record is the record
\* at that position in the result of the chain without the leading divide.
C8_LeadingDivideFrame ==
    Called =>
      \A tree \in Derivations :
        (LeadingDivide(tree) /\ ~HasGroup(tree)) =>
          LET comps == ComponentsOf(TopTerm(tree))
          IN  /\ result.status = "returned"
              /\ IsFlat(result.value, Len(comps))
              /\ result.value.l[1] =
                    Merge(transform(comps[1]), OperatorDict(<<"/">>))
              /\ \A k \in 2..Len(comps) :
                    \A plain \in Outcomes(vocabulary, Tail(data)) :
                       /\ plain.status = "returned"
                       /\ plain.value.tag = "list"
                       /\ Len(plain.value.l) >= k
                       /\ plain.value.l[k] = result.value.l[k]

\* C3: when a result is returned for an input with annotation tokens
\* "{" s "}", the annotations held by its records are exactly the contents
\* s, the characters strictly between the braces.
C3_AnnotationIsContent ==
    (Called /\ result.status = "returned") =>
      \A tree \in Derivations :
        UNION {rec.annotation : rec \in RecordsOf(result.value)}
          = {Content(n.text) : n \in TokensOf(tree, "ANNOTATION")}

\* C4: when a result is returned for an input read as PREFIX p before
\* METRIC a, the record has the whole symbol p as its prefix and a as its
\* unit, whatever the length of p.
C4_PrefixIsWholeSymbol ==
    (Called /\ result.status = "returned") =>
      \A tree \in Derivations :
        {<<rec.prefix, rec.unit>> :
            rec \in {r \in RecordsOf(result.value) : r.prefix # {}}}
          = {<<{n.children[1].text}, {n.children[2].text}>> :
                n \in {x \in NodesOf(tree) :
                          x.kind = "simple_unit" /\ Len(x.children) = 2}}

\* C5: for an input whose exponent tokens the grammar accepts, whatever
\* their length, the transform does not fail and the exponents of the
\* records are the signed integer values of the whole tokens.
C5_ExponentIsTokenValue ==
    Called =>
      \A tree \in Derivations :
        TokensOf(tree, "EXPONENT") # {} =>
          /\ result.status = "returned"
          /\ UNION {rec.exponent : rec \in RecordsOf(result.value)}
               = {int(n.text) : n \in TokensOf(tree, "EXPONENT")}

\* C9: an annotation token ends at the first "}" after its "{": its content
\* holds no brace, so that every "{" of the input opens an annotation of its
\* own and a returned result has one annotated record for each.
C9_AnnotationEndsAtFirstBrace ==
    Called =>
      \A tree \in Derivations :
        /\ \A n \in TokensOf(tree, "ANNOTATION") :
              \A j \in 1..Len(Content(n.text)) :
                 Content(n.text)[j] \notin {"{", "}"}
        /\ result.status = "returned" =>
              LET recs == FlatRecords(result.value)
              IN  Cardinality({k \in 1..Len(recs) : recs[k].annotation # {}})
                    = Count(data, "{")

\* Position i of d lies in a stretch that the lexer can take for one
\* ANNOTATION token: a "{" before it, a "}" after it, printable between.
InAnnotation(d, i) ==
    \E j \in 1..(i - 1) : \E k \in (i + 1)..Len(d) :
       /\ d[j] = "{"
       /\ d[k] = "}"
       /\ \A x \in (j + 1)..(k - 1) : IsPrintable(d[x])

\* A digit run of d that begins with "0" and is not annotation text: the
\* digits of an exponent or of a factor.
ZeroLedDigits(d) ==
    \E i \in 1..Len(d) :
       /\ d[i] = "0"
       /\ (i = 1 \/ ~IsDigit(d[i - 1]))
       /\ ~InAnnotation(d, i)

Disjoint(v) ==
    /\ v.prefixes \cap (v.base_units \cup v.metric_units) = {}
    /\ v.prefixes \cap v.non_metric_units = {}
    /\ (v.base_units \cup v.metric_units) \cap v.non_metric_units = {}

PrefixedNonMetric(v, d) ==
    \E p \in v.prefixes : \E n \in v.non_metric_units : d = p \o n

\* C7, as claimed: under a vocabulary of pairwise disjoint sets, a prefix
\* symbol followed immediately by a non-metric atom is a syntax error.
C7_PrefixedNonMetricRejected ==
    (Called /\ Disjoint(vocabulary) /\ PrefixedNonMetric(vocabulary, data))
       => result = SyntaxError

\* The string is also an atom, or a prefix before a metric atom.
OtherReading(v, d) ==
    \/ d \in v.base_units \cup v.metric_units \cup v.non_metric_units
    \/ \E p \in v.prefixes : \E a \in v.base_units \cup v.metric_units : d = p \o a

\* C7, amended: under a vocabulary of pairwise disjoint sets, a prefix
\* symbol followed immediately by a non-metric atom is a syntax error
\* unless the string is itself an atom, or a prefix before a metric atom;
\* then it is read so, and no record has a prefix on a non-metric unit.
C7_RejectedUnlessOtherReading ==
    (Called /\ Disjoint(vocabulary) /\ PrefixedNonMetric(vocabulary, data)) =>
       \/ result = SyntaxError
       \/ /\ OtherReading(vocabulary, data)
          /\ result.status = "returned"
          /\ \A rec \in RecordsOf(result.value) :
                ~(rec.prefix # {} /\ rec.type = {"non_metric"})

C7_Witness ==
    /\ Called
    /\ Disjoint(vocabulary)
    /\ data = <<"k", "h">>
    /\ PrefixedNonMetric(vocabulary, data)
    /\ result = SyntaxError

====
